---- MODULE Spec2Model ----
(***************************************************************************)
(* Bookmark manager (src/main.rs): a backing file holding a YAML list of   *)
(* Bookmark {name, offset: f64}, and the three operations add_bookmark,    *)
(* remove_bookmark and query_bookmark, each one whole process invocation   *)
(* (open, read all, mutate, truncate and write all).                       *)
(***************************************************************************)
EXTENDS Integers, Sequences, FiniteSets

\* ---------------------------------------------------------------- bounds
MaxLen == 2
MaxOffset == 1

\* ---------------------------------------------------------------- values
\* The f64 value NaN: parsed by value_t!(.., f64) and by serde_yaml (.nan),
\* incomparable with every f64, itself included.  Encoded as an integer that
\* is no numeric offset; only compare and Leq give it its meaning.
NaN == MaxOffset + 1

Names == {"alpha", "beta"}
Offsets == (0..MaxOffset) \cup {NaN}

\* Bookmark::new
Bookmark(name, offset) == [name |-> name, offset |-> offset]

Bookmarks == {Bookmark(n, o) : n \in Names, o \in Offsets}

BoundedSeq(S, n) == UNION {[1..k -> S] : k \in 0..n}

\* The backing file.  kind: "missing" (no such path), "empty" (zero bytes),
\* "garbage" (bytes that are no YAML list of Bookmark), "yaml" (a list of
\* Bookmark, recs).  canon: the bytes are exactly what serde_yaml::to_writer
\* emits for recs; a file the program has not written yet holds its list in
\* bytes of its author's choosing (other indentation, comments, flow style).
MissingFile == [kind |-> "missing", recs |-> <<>>, canon |-> FALSE]
EmptyFile == [kind |-> "empty", recs |-> <<>>, canon |-> FALSE]
GarbageFile == [kind |-> "garbage", recs |-> <<>>, canon |-> FALSE]
YamlFile(recs, canon) == [kind |-> "yaml", recs |-> recs, canon |-> canon]

InitFiles ==
    {MissingFile, EmptyFile, GarbageFile}
        \cup {YamlFile(s, FALSE) : s \in BoundedSeq(Bookmarks, MaxLen)}

\* Result<Option<Bookmark>, Box<dyn Error>>; rec is <<>> for None, <<b>> for
\* Some(b).  "Panic" is the unwinding of the process.
Ok(rec) == [status |-> "Ok", rec |-> rec]
Err == [status |-> "Err", rec |-> <<>>]
Panic == [status |-> "Panic", rec |-> <<>>]

\* The I/O call of a rewrite that the environment makes fail, if reached:
\* "set_len" is file.seek(..)? or file.set_len(0)? failing (nothing is changed
\* yet), "to_writer" is serde_yaml::to_writer failing on the emptied file.
Faults == {"none", "set_len", "to_writer"}

VARIABLES
    file,      \* the backing file
    prev,      \* the backing file when the last invocation started
    op,        \* the last invocation: "init", "add", "remove", "query"
    argName,   \* its --name
    argOffset, \* its --offset (0 when it takes none)
    fault,     \* the I/O call the environment made fail in it
    ret,       \* what it returned
    repeat,    \* it is an add that repeats the arguments of the successful add before it
    uniq0      \* the names were unique in the file that the invocation before the last loaded

vars == <<file, prev, op, argName, argOffset, fault, ret, repeat, uniq0>>

\* ---------------------------------------------------------------- helpers
RemoveAt(s, i) == SubSeq(s, 1, i - 1) \o SubSeq(s, i + 1, Len(s))

\* from_reader that returns an empty list where it should fail.
from_reader_tolerant(f) ==
    IF f.kind = "yaml" THEN [ok |-> TRUE, val |-> f.recs]
    ELSE [ok |-> TRUE, val |-> <<>>]

\* serde_yaml::from_reader::<Vec<Bookmark>>: the list, or an error on zero
\* bytes and on bytes that are no list of Bookmark.
from_reader(f) ==
    IF f.kind = "yaml" THEN [ok |-> TRUE, val |-> f.recs]
    ELSE [ok |-> FALSE, val |-> <<>>]

\* serde_yaml::from_reader(&file).unwrap_or(Vec::new())
from_reader_or_empty(f) == IF from_reader(f).ok THEN from_reader(f).val ELSE <<>>

\* serde_yaml::to_writer(&file, &bookmarks) onto the truncated file.
to_writer(recs) == YamlFile(recs, TRUE)

\* What a failed to_writer can leave in the file that set_len(0) emptied:
\* nothing, the bytes of some of the leading records, or a cut record.
PartialWrites(recs) ==
    {EmptyFile, GarbageFile}
        \cup {YamlFile(SubSeq(recs, 1, k), TRUE) : k \in 1..(Len(recs) - 1)}

\* rposition in place of position: the last match.
position_last(s, name) ==
    IF \E i \in 1..Len(s) : s[i].name = name
    THEN CHOOSE i \in 1..Len(s) :
             /\ s[i].name = name
             /\ \A j \in (i + 1)..Len(s) : s[j].name # name
    ELSE 0

\* iter().position(|x| x.name == name): 0 for None.
position(s, name) ==
    IF \E i \in 1..Len(s) : s[i].name = name
    THEN CHOOSE i \in 1..Len(s) :
             /\ s[i].name = name
             /\ \A j \in 1..(i - 1) : s[j].name # name
    ELSE 0

\* Upsert that pushes whether or not the name is present.
UpsertAlwaysPush(bookmarks, name, offset) == Append(bookmarks, Bookmark(name, offset))

\* if find(name).is_none() { push(new) } else { find(name).offset = offset }
Upsert(bookmarks, name, offset) ==
    IF position(bookmarks, name) = 0
    THEN Append(bookmarks, Bookmark(name, offset))
    ELSE [bookmarks EXCEPT ![position(bookmarks, name)].offset = offset]

\* compare with its arguments swapped: b.offset.partial_cmp(&a.offset).
compare_swapped(a, b) ==
    IF a.offset = NaN \/ b.offset = NaN THEN "Equal"
    ELSE IF b.offset < a.offset THEN "Less"
    ELSE IF b.offset > a.offset THEN "Greater"
    ELSE "Equal"

\* a.offset.partial_cmp(&b.offset).unwrap_or(Ordering::Equal)
compare(a, b) ==
    IF a.offset = NaN \/ b.offset = NaN THEN "Equal"
    ELSE IF a.offset < b.offset THEN "Less"
    ELSE IF a.offset > b.offset THEN "Greater"
    ELSE "Equal"

\* Whether compare is a total order on the elements of s (what sort_unstable_by
\* requires): a NaN beside two different offsets breaks transitivity.
TotalOrder(s) ==
    \A i, j, k \in 1..Len(s) :
        (compare(s[i], s[j]) # "Greater" /\ compare(s[j], s[k]) # "Greater")
            => compare(s[i], s[k]) # "Greater"

RECURSIVE Arrangements(_)
Arrangements(s) ==
    IF s = <<>> THEN {<<>>}
    ELSE UNION {{<<s[i]>> \o p : p \in Arrangements(RemoveAt(s, i))} : i \in 1..Len(s)}

IsSortedBy(s) == \A i, j \in 1..Len(s) : i < j => compare(s[i], s[j]) # "Greater"

\* The sort left out.
sort_skipped(s) == {s}

\* slice::sort_unstable_by(compare): the arrangements it may leave.  It is not
\* stable, so equal elements come in any order; when compare is no total
\* order the order of the elements is unspecified.
sort_unstable_by(s) ==
    IF TotalOrder(s) THEN {p \in Arrangements(s) : IsSortedBy(p)}
    ELSE Arrangements(s)

\* Vec::dedup_by(|x, y| x.name == y.name): drops each element whose name
\* equals that of the element retained just before it.
RECURSIVE dedup_from(_, _)
dedup_from(kept, rest) ==
    IF rest = <<>> THEN kept
    ELSE IF kept # <<>> /\ Head(rest).name = kept[Len(kept)].name
         THEN dedup_from(kept, Tail(rest))
         ELSE dedup_from(Append(kept, Head(rest)), Tail(rest))

\* dedup_by(|x, y| x.offset == y.offset): the wrong field as the key.
RECURSIVE dedup_offsets_from(_, _)
dedup_offsets_from(kept, rest) ==
    IF rest = <<>> THEN kept
    ELSE IF /\ kept # <<>>
            /\ Head(rest).offset # NaN
            /\ Head(rest).offset = kept[Len(kept)].offset
         THEN dedup_offsets_from(kept, Tail(rest))
         ELSE dedup_offsets_from(Append(kept, Head(rest)), Tail(rest))

dedup_by_offset(s) == dedup_offsets_from(<<>>, s)

dedup_by(s) == dedup_from(<<>>, s)

\* The collections add_bookmark may hold when it reaches the seek.
AddCollections(f, name, offset) ==
    {dedup_by(s) : s \in sort_unstable_by(Upsert(from_reader_or_empty(f), name, offset))}

\* drain(..).filter(|val| val.name == name).next()
first_match(s, name) ==
    IF position(s, name) = 0 THEN <<>> ELSE <<s[position(s, name)]>>

\* OpenOptions .create(true).open: a missing file comes to exist, empty.
open_create(f) == IF f.kind = "missing" THEN EmptyFile ELSE f

\* ---------------------------------------------------------------- state machine
Init ==
    /\ file \in InitFiles
    /\ prev = file
    /\ op = "init"
    /\ argName = "alpha"
    /\ argOffset = 0
    /\ fault = "none"
    /\ ret = Ok(<<>>)
    /\ repeat = FALSE
    /\ uniq0 = FALSE

UniqueNames(s) == \A i, j \in 1..Len(s) : s[i].name = s[j].name => i = j

Observe(o, name, offset, flt) ==
    /\ prev' = file
    /\ op' = o
    /\ argName' = name
    /\ argOffset' = offset
    /\ fault' = flt
    /\ repeat' = (/\ o = "add" /\ op = "add" /\ ret.status = "Ok"
                  /\ argName = name /\ argOffset = offset)
    /\ uniq0' = UniqueNames(from_reader_or_empty(prev))

\* The seek, set_len, to_writer tail of add_bookmark and remove_bookmark on the
\* opened file f with the collection recs in memory; okRet on success.
Rewrite(f, recs, flt, okRet) ==
    IF flt = "set_len" THEN file' = f /\ ret' = Err
    ELSE IF flt = "to_writer" THEN file' \in PartialWrites(recs) /\ ret' = Err
    ELSE file' = to_writer(recs) /\ ret' = okRet

add_bookmark(name, offset) ==
    \/ \E recs \in AddCollections(open_create(file), name, offset) :
           \E flt \in Faults :
               /\ Observe("add", name, offset, flt)
               /\ Rewrite(open_create(file), recs, flt, Ok(<<>>))
    \/ /\ ~TotalOrder(Upsert(from_reader_or_empty(file), name, offset))
       /\ Observe("add", name, offset, "none")
       /\ file' = open_create(file)
       /\ ret' = Panic

\* remove_bookmark with the rewrite moved out of the `if let Some(index)`.
remove_bookmark_rewriting(name, flt) ==
    /\ Observe("remove", name, 0, flt)
    /\ IF file.kind = "missing" \/ ~from_reader(file).ok
       THEN file' = file /\ ret' = Err
       ELSE IF position(file.recs, name) # 0
       THEN Rewrite(file, RemoveAt(file.recs, position(file.recs, name)), flt,
                    Ok(<<file.recs[position(file.recs, name)]>>))
       ELSE Rewrite(file, file.recs, flt, Ok(<<>>))

remove_bookmark(name, flt) ==
    /\ Observe("remove", name, 0, flt)
    /\ IF file.kind = "missing" \/ ~from_reader(file).ok
       THEN file' = file /\ ret' = Err
       ELSE IF position(file.recs, name) # 0
       THEN Rewrite(file, RemoveAt(file.recs, position(file.recs, name)), flt,
                    Ok(<<file.recs[position(file.recs, name)]>>))
       ELSE file' = file /\ ret' = Ok(<<>>)

\* What query_bookmark returns on the file f.
query_return(f, name) ==
    IF f.kind = "missing" \/ ~from_reader(f).ok THEN Err
    ELSE Ok(first_match(from_reader(f).val, name))

\* query_bookmark opening its file with .create(true), as add_bookmark does.
query_bookmark_creating(name) ==
    /\ Observe("query", name, 0, "none")
    /\ file' = open_create(file)
    /\ ret' = query_return(open_create(file), name)

query_bookmark(name) ==
    /\ Observe("query", name, 0, "none")
    /\ file' = file
    /\ ret' = query_return(file, name)

Next ==
    \/ \E name \in Names, offset \in Offsets : add_bookmark(name, offset)
    \/ \E name \in Names, flt \in Faults : remove_bookmark(name, flt)
    \/ \E name \in Names : query_bookmark(name)

Spec == Init /\ [][Next]_vars

TypeOK ==
    /\ file.kind \in {"missing", "empty", "garbage", "yaml"}
    /\ op \in {"init", "add", "remove", "query"}
    /\ ret.status \in {"Ok", "Err", "Panic"}
    /\ Len(file.recs) <= MaxLen + Cardinality(Names)

\* ---------------------------------------------------------------- properties
Range(s) == {s[i] : i \in 1..Len(s)}

AddOk == op = "add" /\ ret.status = "Ok"

\* a <= b on f64: false when either side is NaN.
Leq(a, b) == a # NaN /\ b # NaN /\ a <= b

SortedAscending(s) == \A i \in 1..(Len(s) - 1) : Leq(s[i].offset, s[i + 1].offset)

NoNaN(s) == \A i \in 1..Len(s) : s[i].offset # NaN

Named(s, name) == {i \in 1..Len(s) : s[i].name = name}

\* A stable sort by compare (insertion sort), for comparison with the code's.
RECURSIVE InsertStable(_, _)
InsertStable(s, x) ==
    IF s = <<>> \/ compare(s[Len(s)], x) # "Greater" THEN Append(s, x)
    ELSE Append(InsertStable(SubSeq(s, 1, Len(s) - 1), x), s[Len(s)])

RECURSIVE StableSort(_)
StableSort(s) ==
    IF s = <<>> THEN <<>>
    ELSE InsertStable(StableSort(SubSeq(s, 1, Len(s) - 1)), s[Len(s)])

\* C1: after any successful add, whatever the file held before, no two
\* records of the rewritten file share a name.
C1_NoDuplicateNames == AddOk => UniqueNames(file.recs)

\* C2: after any successful add the file is sorted ascending by offset (each
\* adjacent pair earlier <= later), and a later remove or query keeps a sorted
\* file sorted.
C2_SortedAfterAdd ==
    /\ AddOk => SortedAscending(file.recs)
    /\ (op \in {"remove", "query"} /\ SortedAscending(prev.recs)) => SortedAscending(file.recs)

\* C2, amended: after a successful add in which neither the added offset nor
\* any offset the file held is NaN, the file is sorted ascending by offset
\* (each adjacent pair earlier <= later); a later remove or query keeps a
\* sorted file sorted.
C2_SortedWithoutNaN ==
    /\ (AddOk /\ NoNaN(prev.recs) /\ argOffset # NaN) => SortedAscending(file.recs)
    /\ (op \in {"remove", "query"} /\ SortedAscending(prev.recs)) => SortedAscending(file.recs)

\* An add of comparable offsets that had to move records to sort them.
C2_Witness ==
    /\ AddOk /\ NoNaN(prev.recs) /\ argOffset # NaN
    /\ Len(file.recs) >= 3
    /\ ~SortedAscending(prev.recs)
    /\ file.recs[1].offset < file.recs[Len(file.recs)].offset

\* C3: on a store of unique names (or an empty, missing or unparseable file)
\* a successful add(name, offset) leaves the old records with any record named
\* name replaced by {name, offset}, once; query(name) then returns it; the
\* other records keep their offsets; add returns no record.
C3_AddUpserts ==
    (AddOk /\ UniqueNames(prev.recs)) =>
        LET new == Bookmark(argName, argOffset)
            want == {r \in Range(prev.recs) : r.name # argName} \cup {new}
        IN /\ Range(file.recs) = want
           /\ Len(file.recs) = Cardinality(want)
           /\ query_return(file, argName) = Ok(<<new>>)
           /\ ret = Ok(<<>>)

\* An add that updates the offset of a record among others.
C3_Witness ==
    /\ AddOk /\ UniqueNames(prev.recs)
    /\ Len(prev.recs) = 2
    /\ \E i \in Named(prev.recs, argName) : prev.recs[i].offset # argOffset
    /\ Len(file.recs) = 2

\* C4: for any prior file content, query(name) after add(name, offset) equals
\* query(name) after add(name, offset); add(name, offset).
C4_AddIdempotent ==
    (repeat /\ AddOk) => query_return(file, argName) = query_return(prev, argName)

\* C4, amended: for any prior file content whose names are unique (or that is
\* missing or unparseable), query(name) after add(name, offset) equals
\* query(name) after add(name, offset); add(name, offset).
C4_AddIdempotentOnUnique ==
    (repeat /\ AddOk /\ uniq0) => query_return(file, argName) = query_return(prev, argName)

\* A second add with the arguments of the first, on a store of unique names
\* that after the first add holds the name beside another record.
C4_Witness ==
    /\ repeat /\ AddOk /\ uniq0
    /\ argOffset # NaN
    /\ Len(prev.recs) >= 2
    /\ query_return(file, argName) = Ok(<<Bookmark(argName, argOffset)>>)

\* C5: whenever add or remove fails with an error, the file holds its complete
\* previous contents (a missing file that add created empty holding what it
\* held, nothing) or the complete new collection.
C5_AtomicRewrite ==
    (op \in {"add", "remove"} /\ ret.status = "Err") =>
        \/ file = prev
        \/ prev.kind = "missing" /\ file = EmptyFile
        \/ /\ op = "add"
           /\ \E recs \in AddCollections(prev, argName, argOffset) : file = to_writer(recs)
        \/ /\ op = "remove"
           /\ \E i \in Named(prev.recs, argName) : file = to_writer(RemoveAt(prev.recs, i))

\* C6: remove(name) on a parseable store with no record named name returns
\* "no record" without error and never reaches the truncate/write step: the
\* file is as before, byte for byte.
C6_RemoveAbsent ==
    (op = "remove" /\ prev.kind = "yaml" /\ Named(prev.recs, argName) = {}) =>
        /\ ret = Ok(<<>>)
        /\ file = prev

\* A remove of an absent name from a non-empty store that the program did not
\* write, with the write set to fail if reached.
C6_Witness ==
    /\ op = "remove" /\ prev.kind = "yaml" /\ Named(prev.recs, argName) = {}
    /\ prev.recs # <<>> /\ ~prev.canon
    /\ fault = "to_writer"
    /\ ret.status = "Ok"

\* C7: remove(name) on a parseable store holding a record named name returns
\* the first such record in file order and rewrites the file with exactly the
\* other records, in their order and with their offsets: one record goes.
C7_RemoveFirst ==
    (op = "remove" /\ prev.kind = "yaml" /\ Named(prev.recs, argName) # {}) =>
        /\ fault = "none" => ret.status = "Ok"
        /\ ret.status = "Ok" =>
              \E i \in Named(prev.recs, argName) :
                  /\ \A j \in Named(prev.recs, argName) : i <= j
                  /\ ret.rec = <<prev.recs[i]>>
                  /\ file.kind = "yaml"
                  /\ file.recs = RemoveAt(prev.recs, i)
                  /\ Len(file.recs) = Len(prev.recs) - 1

\* A remove from a store holding the name twice, at different offsets.
C7_Witness ==
    /\ op = "remove" /\ prev.kind = "yaml" /\ ret.status = "Ok"
    /\ Cardinality(Named(prev.recs, argName)) = 2
    /\ \E i, j \in Named(prev.recs, argName) : prev.recs[i].offset # prev.recs[j].offset
    /\ Len(file.recs) = Len(prev.recs) - 1

\* C8: query(name) never changes the file (its existence and its contents),
\* whatever it held; on a parseable store it returns the first record in file
\* order named name, or "no record".
C8_QueryReadOnly ==
    op = "query" =>
        /\ file = prev
        /\ prev.kind = "yaml" =>
              IF Named(prev.recs, argName) = {} THEN ret = Ok(<<>>)
              ELSE \E i \in Named(prev.recs, argName) :
                       /\ \A j \in Named(prev.recs, argName) : i <= j
                       /\ ret = Ok(<<prev.recs[i]>>)

\* A query of a store that holds the name twice, at different offsets, and was
\* not written by the program.
C8_Witness ==
    /\ op = "query" /\ prev.kind = "yaml" /\ ~prev.canon
    /\ Cardinality(Named(prev.recs, argName)) = 2
    /\ \E i, j \in Named(prev.recs, argName) : prev.recs[i].offset # prev.recs[j].offset
    /\ ret.status = "Ok" /\ ret.rec # <<>>

\* C9: on a file that cannot be parsed, remove and query fail and leave the
\* file unchanged, while add (its I/O succeeding) does not fail, loads an
\* empty collection and leaves exactly the one added record.
C9_TolerantOnlyInAdd ==
    prev.kind \in {"empty", "garbage"} =>
        /\ op \in {"remove", "query"} => (ret.status = "Err" /\ file = prev)
        /\ (op = "add" /\ fault = "none") =>
              /\ ret = Ok(<<>>)
              /\ file = YamlFile(<<Bookmark(argName, argOffset)>>, TRUE)

\* An add that succeeded on an unparseable file and left one record.
C9_Witness == AddOk /\ prev.kind = "garbage" /\ Len(file.recs) = 1

====
